---- MODULE Spec2Model ----
(***************************************************************************)
(* The LLM-response recovery layer of the content strategist agents        *)
(* (src/agents/title_agent.py, src/agents/content_agent.py).               *)
(*                                                                         *)
(* Text is a sequence of tokens.  A token is one punctuation character,    *)
(* one whitespace character, the code-fence marker, or a maximal run of    *)
(* identifier characters (a word or a number).  Texts are canonical: no    *)
(* two identifier runs are adjacent, so a token sequence denotes exactly   *)
(* one Python string and every str operation of the source (strip, find,   *)
(* slice, replace, split, re.sub, json.loads) is computed on it as Python  *)
(* computes it on the characters.                                          *)
(***************************************************************************)
EXTENDS Integers, Sequences, FiniteSets, TLC

VARIABLES pc, op, args, llm, ret, path

\* st.session_state of the web form (src/app.py)
VARIABLES generated_titles, selected_title, generated_content

\* the page the last script run left: the two text inputs, the button whose
\* click started the run, and the buttons it rendered
VARIABLES form_topic, form_audience, clicked, select_buttons, content_button

session == <<generated_titles, selected_title, generated_content>>
page == <<form_topic, form_audience, clicked, select_buttons, content_button>>

vars == <<pc, op, args, llm, ret, path, session, page>>

(***************************************************************************)
(* Tokens                                                                  *)
(***************************************************************************)
dq == "\""
sq == "'"
sp == " "
nl == "\n"
\* the three-backtick fence marker (a backtick cannot be written in a TLA+
\* string, so three tildes stand for the three backticks)
fence == "~~~"

WS == {sp, nl}

Words == {"json", "title", "seo_score", "reasoning", "content", "hashtags",
          "engagement_score", "original_length", "analysis", "error",
          "Title", "Sure", "Great", "Headline", "note", "tag", "null", "x", "no"}

Nums == {"0", "5", "7", "9", "15"}

NumVal(t) ==
    CASE t = "0" -> 0
      [] t = "5" -> 5
      [] t = "7" -> 7
      [] t = "9" -> 9
      [] t = "15" -> 15

IsWord(t) == t \in Words
IsNum(t) == t \in Nums
IsAlnum(t) == IsWord(t) \/ IsNum(t)

\* no two identifier runs are adjacent
IsCanonical(s) == \A i \in 1..(Len(s) - 1) : ~(IsAlnum(s[i]) /\ IsAlnum(s[i + 1]))

Min(S) == CHOOSE m \in S : \A n \in S : m <= n
Max(S) == CHOOSE m \in S : \A n \in S : m >= n

\* len(s): the number of characters
RECURSIVE StrLen(_)
StrLen(s) == IF s = <<>> THEN 0 ELSE Len(Head(s)) + StrLen(Tail(s))

(***************************************************************************)
(* Python str operations                                                   *)
(***************************************************************************)
\* s.strip()
Strip(s) ==
    LET idx == {i \in 1..Len(s) : s[i] \notin WS}
    IN  IF idx = {} THEN <<>> ELSE SubSeq(s, Min(idx), Max(idx))

\* s.startswith(p), s.endswith(p)
StartsWith(s, p) == Len(s) >= Len(p) /\ SubSeq(s, 1, Len(p)) = p
EndsWith(s, p) == Len(s) >= Len(p) /\ SubSeq(s, Len(s) - Len(p) + 1, Len(s)) = p

\* s.find(c) and s.rfind(c) for a one-character c: 0-based index, or -1
Find(s, c) ==
    LET idx == {i \in 1..Len(s) : s[i] = c}
    IN  IF idx = {} THEN -1 ELSE Min(idx) - 1
RFind(s, c) ==
    LET idx == {i \in 1..Len(s) : s[i] = c}
    IN  IF idx = {} THEN -1 ELSE Max(idx) - 1

\* s[a:b] for 0 <= a and 0 <= b (0-based, b exclusive)
Slice(s, a, b) == SubSeq(s, a + 1, IF b > Len(s) THEN Len(s) ELSE b)

\* the first 0-based position >= 0 where sub occurs in s, or -1
FindSub(s, sub) ==
    LET idx == {i \in 1..(Len(s) - Len(sub) + 1) : SubSeq(s, i, i + Len(sub) - 1) = sub}
    IN  IF idx = {} THEN -1 ELSE Min(idx) - 1

\* sub in s
Contains(s, sub) == FindSub(s, sub) # -1

\* s.replace(old, new): leftmost non-overlapping occurrences, old non-empty
RECURSIVE Replace(_, _, _)
Replace(s, old, new) ==
    IF s = <<>> THEN <<>>
    ELSE IF StartsWith(s, old)
         THEN new \o Replace(SubSeq(s, Len(old) + 1, Len(s)), old, new)
         ELSE <<Head(s)>> \o Replace(Tail(s), old, new)

\* s.split(sep): the list of pieces, sep non-empty
RECURSIVE Split(_, _)
Split(s, sep) ==
    LET i == FindSub(s, sep)
    IN  IF i = -1 THEN <<s>>
        ELSE <<SubSeq(s, 1, i)>> \o Split(SubSeq(s, i + Len(sep) + 1, Len(s)), sep)

\* s.split(sep, 1)
Split1(s, sep) ==
    LET i == FindSub(s, sep)
    IN  IF i = -1 THEN <<s>>
        ELSE <<SubSeq(s, 1, i), SubSeq(s, i + Len(sep) + 1, Len(s))>>

\* s.split(): the maximal runs of non-whitespace
RECURSIVE SplitWs(_)
SplitWs(s) ==
    LET idx == {i \in 1..Len(s) : s[i] \notin WS}
    IN  IF idx = {} THEN <<>>
        ELSE LET a == Min(idx)
                 ends == {i \in a..Len(s) : s[i] \in WS}
                 b == IF ends = {} THEN Len(s) + 1 ELSE Min(ends)
             IN  <<SubSeq(s, a, b - 1)>> \o SplitWs(SubSeq(s, b, Len(s)))

(***************************************************************************)
(* JSON values: what json.loads returns and what the agents return.        *)
(* A dict is the sequence of its items in insertion order.                 *)
(***************************************************************************)
JNull == [t |-> "null", v |-> 0]
JNum(n) == [t |-> "num", v |-> n]
JStr(s) == [t |-> "str", v |-> s]
JArr(xs) == [t |-> "arr", v |-> xs]
JObj(items) == [t |-> "obj", v |-> items]
Item(k, x) == [k |-> k, x |-> x]

IsDict(j) == j.t = "obj"
IsList(j) == j.t = "arr"

\* key in d
HasKey(d, k) == \E i \in 1..Len(d.v) : d.v[i].k = k

\* d[key] for a key of d
Get(d, k) == d.v[CHOOSE i \in 1..Len(d.v) : d.v[i].k = k].x

\* d[key] = x
DictPut(d, k, x) ==
    IF HasKey(d, k)
    THEN JObj([i \in 1..Len(d.v) |-> IF d.v[i].k = k THEN Item(k, x) ELSE d.v[i]])
    ELSE JObj(Append(d.v, Item(k, x)))

(***************************************************************************)
(* json.loads: one strict parse of the whole text                          *)
(***************************************************************************)
ParseFail == [ok |-> FALSE, v |-> JNull, i |-> 0]
ParseOk(x, i) == [ok |-> TRUE, v |-> x, i |-> i]

\* the first position >= i that holds no JSON whitespace
SkipWs(s, i) ==
    LET idx == {j \in i..Len(s) : s[j] \notin WS}
    IN  IF idx = {} THEN Len(s) + 1 ELSE Min(idx)

\* a string starting at the quote s[i]; a raw newline inside it is a control
\* character, which the strict decoder rejects
ParseString(s, i) ==
    LET close == {j \in (i + 1)..Len(s) : s[j] = dq}
    IN  IF close = {} THEN ParseFail
        ELSE LET j == Min(close)
                 body == SubSeq(s, i + 1, j - 1)
             IN  IF \E k \in 1..Len(body) : body[k] = nl THEN ParseFail
                 ELSE ParseOk(JStr(body), j + 1)

RECURSIVE ParseValue(_, _), ParseElems(_, _, _), ParseMembers(_, _, _)

\* the value starting at position i (whitespace already skipped)
ParseValue(s, i) ==
    IF i > Len(s) THEN ParseFail
    ELSE IF s[i] = dq THEN ParseString(s, i)
    ELSE IF s[i] = "{"
         THEN LET j == SkipWs(s, i + 1)
              IN  IF j <= Len(s) /\ s[j] = "}" THEN ParseOk(JObj(<<>>), j + 1)
                  ELSE ParseMembers(s, j, JObj(<<>>))
    ELSE IF s[i] = "["
         THEN LET j == SkipWs(s, i + 1)
              IN  IF j <= Len(s) /\ s[j] = "]" THEN ParseOk(JArr(<<>>), j + 1)
                  ELSE ParseElems(s, j, <<>>)
    ELSE IF s[i] = "null" THEN ParseOk(JNull, i + 1)
    ELSE IF IsNum(s[i]) THEN ParseOk(JNum(NumVal(s[i])), i + 1)
    ELSE ParseFail

\* the elements of an array from position i on, up to its closing bracket
ParseElems(s, i, acc) ==
    LET r == ParseValue(s, i)
    IN  IF ~r.ok THEN ParseFail
        ELSE LET m == SkipWs(s, r.i)
             IN  IF m > Len(s) THEN ParseFail
                 ELSE IF s[m] = "]" THEN ParseOk(JArr(Append(acc, r.v)), m + 1)
                 ELSE IF s[m] = "," THEN ParseElems(s, SkipWs(s, m + 1), Append(acc, r.v))
                 ELSE ParseFail

\* the members of an object from position i on, up to its closing brace;
\* a repeated key keeps its last value
ParseMembers(s, i, acc) ==
    IF i > Len(s) \/ s[i] # dq THEN ParseFail
    ELSE LET key == ParseString(s, i)
         IN  IF ~key.ok THEN ParseFail
             ELSE LET c == SkipWs(s, key.i)
                  IN  IF c > Len(s) \/ s[c] # ":" THEN ParseFail
                      ELSE LET r == ParseValue(s, SkipWs(s, c + 1))
                           IN  IF ~r.ok THEN ParseFail
                               ELSE LET m == SkipWs(s, r.i)
                                        d == DictPut(acc, key.v.v, r.v)
                                    IN  IF m > Len(s) THEN ParseFail
                                        ELSE IF s[m] = "}" THEN ParseOk(d, m + 1)
                                        ELSE IF s[m] = ","
                                             THEN ParseMembers(s, SkipWs(s, m + 1), d)
                                        ELSE ParseFail

\* json.loads(s): ok = FALSE stands for json.JSONDecodeError
json_loads(s) ==
    LET r == ParseValue(s, SkipWs(s, 1))
    IN  IF r.ok /\ SkipWs(s, r.i) = Len(s) + 1
        THEN [ok |-> TRUE, v |-> r.v]
        ELSE [ok |-> FALSE, v |-> JNull]

(***************************************************************************)
(* The extraction step shared by the five operations                       *)
(***************************************************************************)
\* ExtractPayload with find in place of rfind for the closing delimiter
ExtractPayload_FirstClose(raw, open, close) ==
    LET content_str == Strip(raw)
    IN  IF StartsWith(content_str, <<fence, "json">>)
        THEN LET a == SubSeq(content_str, 3, Len(content_str))
                 b == IF EndsWith(a, <<fence>>) THEN SubSeq(a, 1, Len(a) - 1) ELSE a
             IN  Strip(b)
        ELSE IF ~(StartsWith(content_str, <<open>>) /\ EndsWith(content_str, <<close>>))
             THEN LET start_idx == Find(content_str, open)
                      end_idx == Find(content_str, close) + 1
                  IN  IF start_idx # -1 /\ end_idx # -1
                      THEN Slice(content_str, start_idx, end_idx)
                      ELSE content_str
             ELSE content_str

\* content_str after the strip / fence / delimiter-span step, for the
\* delimiter pair (open, close) of the expected shape
ExtractPayload(raw, open, close) ==
    LET content_str == Strip(raw)
    IN  IF StartsWith(content_str, <<fence, "json">>)
        THEN LET a == SubSeq(content_str, 3, Len(content_str))
                 b == IF EndsWith(a, <<fence>>) THEN SubSeq(a, 1, Len(a) - 1) ELSE a
             IN  Strip(b)
        ELSE IF ~(StartsWith(content_str, <<open>>) /\ EndsWith(content_str, <<close>>))
             THEN LET start_idx == Find(content_str, open)
                      end_idx == RFind(content_str, close) + 1
                  IN  IF start_idx # -1 /\ end_idx # -1
                      THEN Slice(content_str, start_idx, end_idx)
                      ELSE content_str
             ELSE content_str

(***************************************************************************)
(* _clean_json_string                                                      *)
(***************************************************************************)
\* the length of the match of ([{,]\s*)([a-zA-Z_][a-zA-Z0-9_]*)\s*: at the
\* start of s as <<length of group 1, length of the whole match>>, or <<0, 0>>
KeyMatch(s) ==
    IF s = <<>> \/ s[1] \notin {"{", ","} THEN <<0, 0>>
    ELSE LET w == SkipWs(s, 2)
         IN  IF w > Len(s) \/ ~IsWord(s[w]) THEN <<0, 0>>
             ELSE LET c == SkipWs(s, w + 1)
                  IN  IF c > Len(s) \/ s[c] # ":" THEN <<0, 0>>
                      ELSE <<w - 1, c>>

\* re.sub(r'([{,]\s*)([a-zA-Z_][a-zA-Z0-9_]*)\s*:', r'\1"\2":', s)
RECURSIVE QuoteKeys(_)
QuoteKeys(s) ==
    IF s = <<>> THEN <<>>
    ELSE LET m == KeyMatch(s)
         IN  IF m[2] = 0 THEN <<Head(s)>> \o QuoteKeys(Tail(s))
             ELSE SubSeq(s, 1, m[1]) \o <<dq, s[m[1] + 1], dq, ":">>
                  \o QuoteKeys(SubSeq(s, m[2] + 1, Len(s)))

\* clean_json_string with the broad json_str.replace("'", '"') applied at the end
clean_json_string_DoubleQuoted(json_str) ==
    Replace(QuoteKeys(Replace(Replace(json_str, <<",", "]">>, <<"]">>), <<",", "}">>, <<"}">>)),
            <<sq>>, <<dq>>)

\* _clean_json_string(json_str)
clean_json_string(json_str) ==
    QuoteKeys(Replace(Replace(json_str, <<",", "]">>, <<"]">>), <<",", "}">>, <<"}">>))

(***************************************************************************)
(* TitleAgent                                                              *)
(***************************************************************************)
kTitle == <<"title">>
kSeoScore == <<"seo_score">>
kReasoning == <<"reasoning">>

TitleMarker == <<dq, "title", dq, ":">>
SeoMarker == <<dq, "seo_score", dq, ":">>
ReasoningMarker == <<dq, "reasoning", dq, ":">>

\* a title record of the fallback paths
TitleRecord(title, score, reasoning) ==
    JObj(<<Item(kTitle, JStr(title)), Item(kSeoScore, JNum(score)),
           Item(kReasoning, JStr(reasoning))>>)

\* get_default_titles with its two candidates in the other order
get_default_titles_swapped(topic) ==
    JArr(<<TitleRecord(<<"5 Proven Strategies for ">> \o topic \o <<" Success">>, 7,
                       <<"Number-based titles attract clicks (default fallback)">>),
           TitleRecord(<<"The Ultimate Guide to ">> \o topic, 8,
                       <<"Ultimate guides perform well in search results (default fallback)">>)>>)

\* _get_default_titles(topic)
get_default_titles(topic) ==
    JArr(<<TitleRecord(<<"The Ultimate Guide to ">> \o topic, 8,
                       <<"Ultimate guides perform well in search results (default fallback)">>),
           TitleRecord(<<"5 Proven Strategies for ">> \o topic \o <<" Success">>, 7,
                       <<"Number-based titles attract clicks (default fallback)">>)>>)

\* "title" in d and "seo_score" in d and "reasoning" in d
IsComplete(d) == HasKey(d, kTitle) /\ HasKey(d, kSeoScore) /\ HasKey(d, kReasoning)

\* int(score_str): the integer, or ValueError
IntOf(score_str) ==
    IF Len(score_str) = 1 /\ IsNum(score_str[1])
    THEN [ok |-> TRUE, v |-> NumVal(score_str[1])]
    ELSE [ok |-> FALSE, v |-> 0]

\* the seo_score assignment without its except clause: ValueError leaves the method
ScoreOf_Uncaught(score_str) ==
    IF IntOf(score_str).ok THEN JNum(IntOf(score_str).v) ELSE [t |-> "raise", v |-> <<"ValueError">>]

\* the value stored under "seo_score": int(score_str), or 7 on IndexError or
\* ValueError
ScoreOf(score_str) ==
    IF IntOf(score_str).ok THEN JNum(IntOf(score_str).v) ELSE JNum(7)

\* ScanLine keeping the fields of an incomplete record for the next title
ScanLine_Merging(st, line) ==
    LET line_strip == Strip(line)
    IN  IF Contains(line_strip, TitleMarker)
        THEN IF st.cur.v # <<>> /\ IsComplete(st.cur)
             THEN [titles |-> Append(st.titles, st.cur),
                   cur |-> DictPut(JObj(<<>>), kTitle,
                             JStr(Strip(Replace(Split(Split(line_strip, TitleMarker)[2], <<",">>)[1],
                                                <<dq>>, <<>>))))]
             ELSE [titles |-> st.titles,
                   cur |-> DictPut(st.cur, kTitle,
                             JStr(Strip(Replace(Split(Split(line_strip, TitleMarker)[2], <<",">>)[1],
                                                <<dq>>, <<>>))))]
        ELSE IF Contains(line_strip, SeoMarker) /\ st.cur.v # <<>>
        THEN [titles |-> st.titles,
              cur |-> DictPut(st.cur, kSeoScore,
                        ScoreOf(Strip(Split(Split(line_strip, SeoMarker)[2], <<",">>)[1])))]
        ELSE IF Contains(line_strip, ReasoningMarker) /\ st.cur.v # <<>>
        THEN [titles |-> st.titles,
              cur |-> DictPut(st.cur, kReasoning,
                        JStr(Strip(Replace(Replace(Split(line_strip, ReasoningMarker)[2],
                                                   <<dq>>, <<>>), <<"}">>, <<>>))))]
        ELSE st

\* one iteration of the first loop over the lines: st = [titles, cur]
ScanLine(st, line) ==
    LET line_strip == Strip(line)
    IN  IF Contains(line_strip, TitleMarker)
        THEN [titles |-> IF st.cur.v # <<>> /\ IsComplete(st.cur)
                         THEN Append(st.titles, st.cur) ELSE st.titles,
              cur |-> DictPut(JObj(<<>>), kTitle,
                        JStr(Strip(Replace(Split(Split(line_strip, TitleMarker)[2], <<",">>)[1],
                                           <<dq>>, <<>>))))]
        ELSE IF Contains(line_strip, SeoMarker) /\ st.cur.v # <<>>
        THEN [titles |-> st.titles,
              cur |-> DictPut(st.cur, kSeoScore,
                        ScoreOf(Strip(Split(Split(line_strip, SeoMarker)[2], <<",">>)[1])))]
        ELSE IF Contains(line_strip, ReasoningMarker) /\ st.cur.v # <<>>
        THEN [titles |-> st.titles,
              cur |-> DictPut(st.cur, kReasoning,
                        JStr(Strip(Replace(Replace(Split(line_strip, ReasoningMarker)[2],
                                                   <<dq>>, <<>>), <<"}">>, <<>>))))]
        ELSE st

\* the state of the first loop after its first n iterations
RECURSIVE ScanLines(_, _)
ScanLines(lines, n) ==
    IF n = 0 THEN [titles |-> <<>>, cur |-> JObj(<<>>)]
    ELSE ScanLine(ScanLines(lines, n - 1), lines[n])

\* the first pass: the complete records, the last one included
FirstPass(content) ==
    LET lines == Split(content, <<nl>>)
        st == ScanLines(lines, Len(lines))
    IN  IF st.cur.v # <<>> /\ IsComplete(st.cur) THEN Append(st.titles, st.cur) ELSE st.titles

\* content.splitlines()
SplitLines(s) ==
    IF s = <<>> THEN <<>>
    ELSE LET parts == Split(s, <<nl>>)
         IN  IF s[Len(s)] = nl THEN SubSeq(parts, 1, Len(parts) - 1) ELSE parts

\* SecondPass taking every line that holds the "title": marker anywhere
RECURSIVE SecondPass_Contains(_)
SecondPass_Contains(lines) ==
    IF lines = <<>> THEN <<>>
    ELSE LET line == Head(lines)
             parts == Split1(line, <<":">>)
             title_text == Replace(Replace(Strip(parts[Len(parts)]), <<dq>>, <<>>), <<",">>, <<>>)
             hit == (StartsWith(Strip(line), <<"Title", ":">>) \/ Contains(line, TitleMarker))
                    /\ 10 < StrLen(title_text) /\ StrLen(title_text) < 100
         IN  (IF hit THEN <<TitleRecord(title_text, 7,
                                        <<"Fallback parsed title with good potential">>)>>
              ELSE <<>>) \o SecondPass_Contains(Tail(lines))

\* the looser second pass over the lines
RECURSIVE SecondPass(_)
SecondPass(lines) ==
    IF lines = <<>> THEN <<>>
    ELSE LET line == Head(lines)
             parts == Split1(line, <<":">>)
             title_text == Replace(Replace(Strip(parts[Len(parts)]), <<dq>>, <<>>), <<",">>, <<>>)
             hit == (StartsWith(Strip(line), <<"Title", ":">>) \/ StartsWith(Strip(line), TitleMarker))
                    /\ 10 < StrLen(title_text) /\ StrLen(title_text) < 100
         IN  (IF hit THEN <<TitleRecord(title_text, 7,
                                        <<"Fallback parsed title with good potential">>)>>
              ELSE <<>>) \o SecondPass(Tail(lines))

\* _parse_fallback_titles(content): a list of at most five records
parse_fallback_titles(content) ==
    LET first == FirstPass(content)
        titles == IF first = <<>> THEN SecondPass(SplitLines(content)) ELSE first
    IN  Slice(titles, 0, 5)

\* what a call hands back: the returned value and the return statement taken
Returned(x, p) == [ret |-> x, path |-> p]

\* an exception that leaves the method
Raised(name) == [t |-> "raise", v |-> <<name>>]

\* the value parsed from the raw text by extract, repair, json.loads
ParseChain(raw, open, close) == json_loads(clean_json_string(ExtractPayload(raw, open, close)))

\* the except Exception clause of generate_titles
OnTitlesException(topic) == Returned(get_default_titles(topic), "exception")

\* the score a sort by seo_score would use for an element
ScoreKey(x) ==
    IF IsDict(x) /\ HasKey(x, kSeoScore) /\ Get(x, kSeoScore).t = "num"
    THEN Get(x, kSeoScore).v ELSE 0

\* xs with x inserted before the first element of a lower score
RECURSIVE InsertByScore(_, _)
InsertByScore(xs, x) ==
    IF xs = <<>> THEN <<x>>
    ELSE IF ScoreKey(x) > ScoreKey(Head(xs)) THEN <<x>> \o xs
    ELSE <<Head(xs)>> \o InsertByScore(Tail(xs), x)

RECURSIVE SortByScore(_)
SortByScore(xs) ==
    IF xs = <<>> THEN <<>> ELSE InsertByScore(SortByScore(Tail(xs)), Head(xs))

\* OnTitlesParsed returning the candidates best score first
OnTitlesParsed_Sorted(parsed_output, topic) ==
    IF IsList(parsed_output) THEN Returned(JArr(SortByScore(parsed_output.v)), "parsed")
    ELSE Returned(get_default_titles(topic), "not_list")

\* generate_titles after json.loads has returned parsed_output
OnTitlesParsed(parsed_output, topic) ==
    IF IsList(parsed_output) THEN Returned(parsed_output, "parsed")
    ELSE Returned(get_default_titles(topic), "not_list")

\* OnTitlesDecodeError returning whatever the line scan found, an empty list included
OnTitlesDecodeError_NoDefault(raw_llm_response_content, topic) ==
    Returned(JArr(parse_fallback_titles(raw_llm_response_content)), "line_scan")

\* the except json.JSONDecodeError clause of generate_titles
OnTitlesDecodeError(raw_llm_response_content, topic) ==
    LET fallback_titles == parse_fallback_titles(raw_llm_response_content)
    IN  IF fallback_titles # <<>> THEN Returned(JArr(fallback_titles), "line_scan")
        ELSE Returned(get_default_titles(topic), "default")

\* generate_titles(topic, target_audience, content_format, tone) with the
\* outcome out of self.llm.invoke
generate_titles(topic, out) ==
    IF out.kind = "raise" THEN OnTitlesException(topic)
    ELSE LET parsed == ParseChain(out.text, "[", "]")
         IN  IF parsed.ok THEN OnTitlesParsed(parsed.v, topic)
             ELSE OnTitlesDecodeError(out.text, topic)

\* ErrorRecord carrying the trimmed text
ErrorRecord_Stripped(error, raw) ==
    JObj(<<Item(<<"error">>, JStr(<<error>>)), Item(<<"raw_response">>, JStr(Strip(raw)))>>)

\* the record every analyze/optimize handler returns from an except clause
ErrorRecord(error, raw) ==
    JObj(<<Item(<<"error">>, JStr(<<error>>)), Item(<<"raw_response">>, JStr(raw))>>)

\* analyze_title_performance(title_to_analyze): the prompt is built before the
\* try block and indexes title_to_analyze.split()[0] when the title is truthy
analyze_title_performance(title_to_analyze, out) ==
    IF title_to_analyze # <<>> /\ SplitWs(title_to_analyze) = <<>>
    THEN Returned(Raised("IndexError"), "raise")
    ELSE IF out.kind = "raise" THEN Returned(ErrorRecord("LLMError", <<>>), "exception")
    ELSE LET parsed == ParseChain(out.text, "{", "}")
         IN  IF parsed.ok
             THEN Returned(JObj(<<Item(<<"analysis">>, parsed.v)>>), "parsed")
             ELSE Returned(ErrorRecord("JSONDecodeError", out.text), "decode_error")

(***************************************************************************)
(* ContentAgent                                                            *)
(***************************************************************************)
kContent == <<"content">>
kHashtags == <<"hashtags">>
kEngagement == <<"engagement_score">>
kPlatform == <<"platform_optimization">>
kCta == <<"cta">>
kReach == <<"estimated_reach">>
kOriginalLength == <<"original_length">>

\* words[:n] of the words that start with '#'
RECURSIVE HashWords(_)
HashWords(words) ==
    IF words = <<>> THEN <<>>
    ELSE (IF Head(words)[1] = "#" THEN <<JStr(Head(words))>> ELSE <<>>) \o HashWords(Tail(words))

\* _extract_hashtags without the [:10] slice
extract_hashtags_Unlimited(content) == JArr(HashWords(SplitWs(content)))

\* _extract_hashtags(content)
extract_hashtags(content) == JArr(Slice(HashWords(SplitWs(content)), 0, 10))

\* _get_default_content(title, topic, content_format)
get_default_content(title, topic, content_format) ==
    JObj(<<Item(kContent, JStr(<<"Exploring ">> \o topic \o <<": ">> \o title
                                \o <<nl, nl, "This is an engaging piece about ">> \o topic
                                \o <<" that provides valuable insights for our audience. Stay tuned for more updates!">>)),
           Item(kHashtags, JArr(<<JStr(<<"#", "content">>), JStr(<<"#", "strategy">>),
                                  JStr(<<"#", "marketing">>)>>)),
           Item(kEngagement, JNum(6)),
           Item(kPlatform, JStr(<<"Basic optimization for ">> \o content_format
                                 \o <<" (default fallback content).">>)),
           Item(kCta, JStr(<<"What are your thoughts on this topic?">>)),
           Item(kReach, JStr(<<"Moderate reach potential (default fallback content).">>))>>)

\* the JSONDecodeError handler of generate_content returning the fixed default
DecodeErrorContent_Default(raw, content_format) ==
    get_default_content(<<>>, <<>>, content_format)

\* the record built in the JSONDecodeError handler of generate_content
DecodeErrorContent(raw, content_format) ==
    JObj(<<Item(kContent, JStr(raw)),
           Item(kHashtags, extract_hashtags(raw)),
           Item(kEngagement, JNum(5)),
           Item(kPlatform, JStr(<<"Failed to parse structured output for ">> \o content_format
                                 \o <<". Raw LLM output provided.">>)),
           Item(kCta, JStr(<<"Review content manually.">>)),
           Item(kReach, JStr(<<"Unknown (parsing error)">>))>>)

\* key_points_str: ", ".join(key_points) if key_points else "None specified";
\* key_points is [none |-> TRUE] for None, else [none |-> FALSE, list |-> ...]
RECURSIVE Join(_)
Join(list) ==
    IF list = <<>> THEN <<>>
    ELSE IF Len(list) = 1 THEN list[1]
    ELSE list[1] \o <<",", sp>> \o Join(Tail(list))
KeyPointsStr(key_points) ==
    IF key_points.none \/ key_points.list = <<>> THEN <<"None specified">>
    ELSE Join(key_points.list)

\* generate_content without its except Exception clause
OnContentException_Reraise(title, topic, content_format) ==
    Returned(Raised("LLMError"), "raise")

\* the except Exception clause of generate_content
OnContentException(title, topic, content_format) ==
    Returned(get_default_content(title, topic, content_format), "exception")

\* generate_content(title, topic, target_audience, content_format, tone, key_points)
generate_content(title, topic, content_format, key_points, out) ==
    LET key_points_str == KeyPointsStr(key_points)
    IN  IF out.kind = "raise" THEN OnContentException(title, topic, content_format)
        ELSE LET parsed == ParseChain(out.text, "{", "}")
             IN  IF parsed.ok THEN Returned(parsed.v, "parsed")
                 ELSE Returned(DecodeErrorContent(out.text, content_format), "decode_error")

\* optimize_for_platform setting original_length whether or not the LLM gave it
optimize_for_platform_Overwrite(content, out) ==
    IF out.kind = "raise" THEN Returned(ErrorRecord("LLMError", <<>>), "exception")
    ELSE LET parsed == ParseChain(out.text, "{", "}")
             x == parsed.v
         IN  IF ~parsed.ok
             THEN Returned(ErrorRecord("JSONDecodeError", out.text), "decode_error")
             ELSE IF IsDict(x)
             THEN Returned(DictPut(x, kOriginalLength, JNum(StrLen(content))), "parsed")
             ELSE Returned(ErrorRecord("TypeError", out.text), "exception")

\* optimize_for_platform(content, platform); a parsed value that is no dict
\* raises TypeError at the membership test or at the item assignment, unless
\* the membership test finds "original_length" in a list or a string
optimize_for_platform(content, out) ==
    IF out.kind = "raise" THEN Returned(ErrorRecord("LLMError", <<>>), "exception")
    ELSE LET parsed == ParseChain(out.text, "{", "}")
             x == parsed.v
         IN  IF ~parsed.ok
             THEN Returned(ErrorRecord("JSONDecodeError", out.text), "decode_error")
             ELSE IF IsDict(x)
             THEN IF ~HasKey(x, kOriginalLength)
                  THEN Returned(DictPut(x, kOriginalLength, JNum(StrLen(content))), "parsed")
                  ELSE Returned(x, "parsed")
             ELSE IF (IsList(x) /\ \E i \in 1..Len(x.v) : x.v[i] = JStr(kOriginalLength))
                     \/ (x.t = "str" /\ Contains(x.v, kOriginalLength))
             THEN Returned(x, "parsed")
             ELSE Returned(ErrorRecord("TypeError", out.text), "exception")

\* analyze_content_performance returning the parsed value itself
analyze_content_performance_Unwrapped(content_to_analyze, out) ==
    IF out.kind = "raise" THEN Returned(ErrorRecord("LLMError", <<>>), "exception")
    ELSE LET parsed == ParseChain(out.text, "{", "}")
         IN  IF parsed.ok
             THEN Returned(parsed.v, "parsed")
             ELSE Returned(ErrorRecord("JSONDecodeError", out.text), "decode_error")

\* analyze_content_performance(content_to_analyze)
analyze_content_performance(content_to_analyze, out) ==
    IF out.kind = "raise" THEN Returned(ErrorRecord("LLMError", <<>>), "exception")
    ELSE LET parsed == ParseChain(out.text, "{", "}")
         IN  IF parsed.ok
             THEN Returned(JObj(<<Item(<<"analysis">>, parsed.v)>>), "parsed")
             ELSE Returned(ErrorRecord("JSONDecodeError", out.text), "decode_error")

(***************************************************************************)
(* What the LLM may answer.  An answer is a payload, possibly wrapped in a *)
(* fence, between leading and trailing prose; or any short text.           *)
(***************************************************************************)
\* the longest free-form answer, in tokens
MaxFreeLen == 3
\* the most elements the LLM puts in a titles array
MaxEmittedTitles == 6
\* the most hashtags the LLM puts in a content object or in free text
MaxEmittedHashtags == 11

Q(str) == <<dq>> \o str \o <<dq>>
Member(key, value) == Q(<<key>>) \o <<":">> \o value

RECURSIVE CommaJoin(_)
CommaJoin(parts) ==
    IF parts = <<>> THEN <<>>
    ELSE IF Len(parts) = 1 THEN parts[1]
    ELSE parts[1] \o <<",">> \o CommaJoin(Tail(parts))

ArrayOf(elems) == <<"[">> \o CommaJoin(elems) \o <<"]">>
ObjectOf(members) == <<"{">> \o CommaJoin(members) \o <<"}">>
Repeat(x, n) == [i \in 1..n |-> x]

TitleObject(title, score, reasoning) ==
    ObjectOf(<<Member("title", Q(title)), Member("seo_score", <<score>>),
               Member("reasoning", Q(reasoning))>>)

GreatTitle == <<"Great", sp, "Headline", sp, "Title">>

\* a pretty-printed title object, one member a line
TitleLines(title, score, reasoning) ==
    <<"{", nl, sp>> \o Member("title", <<sp>> \o Q(title)) \o <<",", nl, sp>>
    \o Member("seo_score", <<sp, score>>) \o <<",", nl, sp>>
    \o Member("reasoning", <<sp>> \o Q(reasoning)) \o <<nl, "}">>

\* strictly valid JSON arrays
ValidTitlePayloads ==
    { ArrayOf(<<>>),
      ArrayOf(<<TitleObject(GreatTitle, "9", <<"x">>)>>),
      ArrayOf(<<TitleObject(<<"x">>, "7", <<"note">>), TitleObject(GreatTitle, "9", <<"x">>)>>),
      ArrayOf(<<TitleObject(<<"x">>, "15", <<"x">>)>>),
      ArrayOf(<<TitleObject(<<"x">>, "0", <<"x">>)>>),
      ArrayOf(<<ObjectOf(<<Member("title", Q(<<"x">>))>>)>>),
      ArrayOf(<<ObjectOf(<<Member("seo_score", <<"9">>), Member("note", <<"null">>)>>)>>),
      ArrayOf(<<<<"9">>, Q(<<"x">>)>>),
      ArrayOf(<<<<"null">>>>),
      ArrayOf(<<TitleLines(GreatTitle, "9", <<"x">>), TitleLines(<<"x">>, "5", <<"note">>)>>),
      ArrayOf(<<TitleObject(<<"x", ",", "]">>, "7", <<"x">>)>>),
      ArrayOf(<<TitleObject(<<"x">>, "7", <<"Great", ",", sp, "note", ":", sp, "x">>)>>),
      ArrayOf(Repeat(ObjectOf(<<Member("title", Q(<<"x">>))>>), MaxEmittedTitles)) }

\* arrays the repair step can or cannot mend, and line-oriented answers
BrokenTitlePayloads ==
    { <<"[">> \o TitleObject(GreatTitle, "9", <<"x">>) \o <<",", "]">>,
      <<"[", "{", "title", ":", sp>> \o Q(GreatTitle) \o <<",", sp, "seo_score", sp, ":", sp, "7", ",", "}", "]">>,
      <<"[", "{">> \o Member("title", <<sq, "x", sq>>) \o <<"}", "]">>,
      <<"[", nl>> \o TitleLines(GreatTitle, "9", <<"x">>) \o <<",", nl>>
           \o TitleLines(<<"x">>, "15", <<"note">>) \o <<",", nl>>,
      <<"[", nl>> \o TitleLines(<<>>, "0", <<>>) \o <<",", nl, "{", nl>>
           \o Member("title", Q(<<"x">>)) \o <<nl>>,
      <<"[", nl>> \o CommaJoin(Repeat(<<"{", nl>> \o Member("title", Q(<<"x">>)) \o <<",", nl>>
                                       \o Member("seo_score", <<"x">>) \o <<",", nl>>
                                       \o Member("reasoning", <<"x">>) \o <<nl, "}">>,
                                       MaxEmittedTitles)),
      <<"Title", ":", sp>> \o GreatTitle \o <<nl, "Title", ":", sp, "x", nl>>
           \o Member("title", Q(GreatTitle)) \o <<",">>,
      <<"no", sp, "json", sp, "x">>,
      \* one pretty-printed title object instead of an array
      TitleLines(GreatTitle, "9", <<"x">>),
      \* score before any title, a title with a score only, a title with a
      \* reasoning only, then a complete record
      SeoMarker \o <<sp, "9", ",", nl>> \o TitleMarker \o <<sp>> \o Q(<<"note">>) \o <<",", nl>>
          \o SeoMarker \o <<sp, "7", ",", nl>> \o TitleMarker \o <<sp>> \o Q(GreatTitle) \o <<",", nl>>
          \o ReasoningMarker \o <<sp>> \o Q(<<"note">>) \o <<nl>> \o TitleMarker \o <<sp>> \o Q(<<"x">>)
          \o <<",", nl>> \o SeoMarker \o <<sp, "5", ",", nl>> \o ReasoningMarker \o <<sp>> \o Q(<<"x">>),
      \* Title: lines whose text, its commas removed, is 10, 11, 99 and 100
      \* characters long
      <<"Title", ":", sp, "hashtags", sp, "x", nl, "Title", ":", sp, "seo_score", sp, "x", nl,
        "Title", ":", sp>> \o CommaJoin(Repeat(<<"engagement_score", sp>>, 5))
          \o <<"reasoning", sp, "x", sp, "x", "!", nl, "Title", ":", sp>>
          \o CommaJoin(Repeat(<<"engagement_score", sp>>, 5)) \o <<"original_length">>,
      \* the three markers, each followed by nothing
      TitleMarker \o <<nl>> \o SeoMarker \o <<nl>> \o ReasoningMarker }

TitlePayloads == ValidTitlePayloads \cup BrokenTitlePayloads

HashtagList(n) == ArrayOf(Repeat(Q(<<"#", "x">>), n))

\* strictly valid JSON values for the object-shaped operations
ValidObjectPayloads ==
    { ObjectOf(<<>>),
      ObjectOf(<<Member("content", Q(<<"x">>)), Member("hashtags", HashtagList(2)),
                 Member("engagement_score", <<"9">>)>>),
      ObjectOf(<<Member("content", Q(<<"x">>)), Member("engagement_score", <<"15">>)>>),
      ObjectOf(<<Member("engagement_score", <<"0">>)>>),
      ObjectOf(<<Member("hashtags", HashtagList(MaxEmittedHashtags))>>),
      ObjectOf(<<Member("original_length", <<"9">>), Member("content", Q(<<"x">>))>>),
      ObjectOf(<<Member("analysis", <<"null">>), Member("error", Q(<<"x">>))>>),
      ObjectOf(<<Member("content", Q(<<"x", ",", "}">>))>>),
      ObjectOf(<<Member("content", ObjectOf(<<Member("note", <<"9">>)>>))>>),
      ArrayOf(<<<<"9">>>>),
      ArrayOf(<<Q(<<"original_length">>)>>),
      ArrayOf(<<ObjectOf(<<>>)>>),
      Q(<<"x">>),
      Q(<<"original_length">>),
      <<"9">>,
      <<"null">> }

BrokenObjectPayloads ==
    { <<"{", "title", ":", sp, sq, "x", sq, ",", sp, "seo_score", ":", sp, "7", ",", "}">>,
      <<"{", "content", sp, ":", sp>> \o Q(<<"x">>) \o <<",", "}">>,
      <<"{">> \o Member("content", Q(<<"x">>)),
      <<"no", sp, "json", sp, "x">>,
      <<"#", "tag", sp, "x", nl, "#", sp, "x", "#", "tag">>,
      CommaJoin(Repeat(<<sp, "#", "x">>, MaxEmittedHashtags)) }

ObjectPayloads == ValidObjectPayloads \cup BrokenObjectPayloads

\* leading and trailing prose, without and with the delimiters of the shape
Prefixes(open, close) ==
    { <<>>, <<"Sure", "!", sp>>, <<nl, "note", sp, open, "x", close, ":", sp>> }
Suffixes(open, close) ==
    { <<>>, <<sp, "Sure", "!", nl>>, <<sp, open, "x", close>> }

\* the opening and closing fence lines
Fences == { [o |-> <<>>, c |-> <<>>],
            [o |-> <<fence, "json", nl>>, c |-> <<nl, fence>>],
            [o |-> <<fence, nl>>, c |-> <<nl, fence>>],
            [o |-> <<fence, "json", nl>>, c |-> <<>>] }

FreeAlphabet == {"[", "]", "{", "}", ",", sp, "x"}

RECURSIVE SeqsUpTo(_, _)
SeqsUpTo(S, n) ==
    IF n = 0 THEN {<<>>}
    ELSE LET shorter == SeqsUpTo(S, n - 1)
         IN  shorter \cup {Append(q, t) : q \in shorter, t \in S}

FreeTexts == {q \in SeqsUpTo(FreeAlphabet, MaxFreeLen) : IsCanonical(q)}

\* the outcome of self.llm.invoke: a response text, or an exception
TextOutcome(pre, f, payload, post) ==
    [kind |-> "text", text |-> pre \o f.o \o payload \o f.c \o post,
     pre |-> pre, fo |-> f.o, payload |-> payload, fc |-> f.c, post |-> post]

RaiseOutcome ==
    [kind |-> "raise", text |-> <<>>, pre |-> <<>>, fo |-> <<>>, payload |-> <<>>,
     fc |-> <<>>, post |-> <<>>]

NoFence == [o |-> <<>>, c |-> <<>>]

Outcomes(payloads, open, close) ==
    {RaiseOutcome}
    \cup {o \in {TextOutcome(pre, f, pl, post) :
                   pre \in Prefixes(open, close), f \in Fences, pl \in payloads,
                   post \in Suffixes(open, close)} :
            IsCanonical(o.text)}
    \cup {TextOutcome(<<>>, NoFence, q, <<>>) : q \in FreeTexts}

TitleOutcomes == Outcomes(TitlePayloads, "[", "]")
ObjectOutcomes == Outcomes(ObjectPayloads, "{", "}")

(***************************************************************************)
(* The calls                                                               *)
(***************************************************************************)
NoneKeyPoints == [none |-> TRUE, list |-> <<>>]
KeyPoints(list) == [none |-> FALSE, list |-> list]

TitleCalls ==
    { [topic |-> <<"AI">>, target_audience |-> <<"Marketers">>,
       content_format |-> <<"Blog Post">>, tone |-> <<"Professional">>],
      [topic |-> <<"x">>, target_audience |-> <<"Founders">>,
       content_format |-> <<"LinkedIn Post">>, tone |-> <<"Casual">>] }

ContentCalls ==
    { [title |-> GreatTitle, topic |-> <<"AI">>, target_audience |-> <<"Marketers">>,
       content_format |-> <<"Blog Post">>, tone |-> <<"Professional">>,
       key_points |-> NoneKeyPoints],
      [title |-> <<"x">>, topic |-> <<"x">>, target_audience |-> <<>>,
       content_format |-> <<"LinkedIn Post">>, tone |-> <<"Casual">>,
       key_points |-> KeyPoints(<<>>)],
      [title |-> GreatTitle, topic |-> <<>>, target_audience |-> <<"Founders">>,
       content_format |-> <<"Podcast">>, tone |-> <<"Casual">>,
       key_points |-> KeyPoints(<<<<"x">>, <<"Great", sp, "Title">>>>)] }

AnalyzedTitles == { <<>>, <<sp>>, GreatTitle }
OptimizedContents == { <<>>, GreatTitle }

NoArgs == [topic |-> <<>>]

Init ==
    /\ pc = "idle"
    /\ op = "none"
    /\ args = NoArgs
    /\ llm = RaiseOutcome
    /\ ret = JNull
    /\ path = "none"
    /\ generated_titles = JArr(<<>>)
    /\ selected_title = JStr(<<>>)
    /\ generated_content = JObj(<<>>)
    /\ form_topic = <<>>
    /\ form_audience = <<>>
    /\ clicked = "none"
    /\ select_buttons = 0
    /\ content_button = FALSE

\* Each action is one call of an operation, from the caller's invocation to
\* its return, with the outcome of the LLM call chosen by the environment.
GenerateTitles ==
    /\ pc = "idle"
    /\ \E a \in TitleCalls, out \in TitleOutcomes :
        LET r == generate_titles(a.topic, out)
        IN  /\ op' = "generate_titles"
            /\ args' = a
            /\ llm' = out
            /\ ret' = r.ret
            /\ path' = r.path
    /\ pc' = "returned"
    /\ UNCHANGED <<session, page>>

AnalyzeTitlePerformance ==
    /\ pc = "idle"
    /\ \E t \in AnalyzedTitles, out \in ObjectOutcomes :
        LET r == analyze_title_performance(t, out)
        IN  /\ op' = "analyze_title_performance"
            /\ args' = [title_to_analyze |-> t]
            /\ llm' = out
            /\ ret' = r.ret
            /\ path' = r.path
    /\ pc' = "returned"
    /\ UNCHANGED <<session, page>>

GenerateContent ==
    /\ pc = "idle"
    /\ \E a \in ContentCalls, out \in ObjectOutcomes :
        LET r == generate_content(a.title, a.topic, a.content_format, a.key_points, out)
        IN  /\ op' = "generate_content"
            /\ args' = a
            /\ llm' = out
            /\ ret' = r.ret
            /\ path' = r.path
    /\ pc' = "returned"
    /\ UNCHANGED <<session, page>>

OptimizeForPlatform ==
    /\ pc = "idle"
    /\ \E c \in OptimizedContents, out \in ObjectOutcomes :
        LET r == optimize_for_platform(c, out)
        IN  /\ op' = "optimize_for_platform"
            /\ args' = [content |-> c, platform |-> <<"LinkedIn">>]
            /\ llm' = out
            /\ ret' = r.ret
            /\ path' = r.path
    /\ pc' = "returned"
    /\ UNCHANGED <<session, page>>

AnalyzeContentPerformance ==
    /\ pc = "idle"
    /\ \E c \in OptimizedContents, out \in ObjectOutcomes :
        LET r == analyze_content_performance(c, out)
        IN  /\ op' = "analyze_content_performance"
            /\ args' = [content_to_analyze |-> c]
            /\ llm' = out
            /\ ret' = r.ret
            /\ path' = r.path
    /\ pc' = "returned"
    /\ UNCHANGED <<session, page>>

\* the caller has taken the result; the agents keep nothing between calls
Done ==
    /\ pc = "returned"
    /\ pc' = "idle"
    /\ op' = "none"
    /\ args' = NoArgs
    /\ llm' = RaiseOutcome
    /\ ret' = JNull
    /\ path' = "none"
    /\ UNCHANGED <<session, page>>

Next ==
    \/ GenerateTitles
    \/ AnalyzeTitlePerformance
    \/ GenerateContent
    \/ OptimizeForPlatform
    \/ AnalyzeContentPerformance
    \/ Done

Spec == Init /\ [][Next]_vars

(***************************************************************************)
(* The web form (src/app.py).  Streamlit runs main() from top to bottom    *)
(* once for every user interaction; a button returns True only in the run  *)
(* its click started, and only a button the previous run rendered can be   *)
(* clicked.  An action is one such run, the agent call it makes included.  *)
(* The select boxes and the key points area stay at their defaults.        *)
(***************************************************************************)
Topics == { <<>>, <<"AI">> }
Audiences == { <<>>, <<"Marketers">> }
FormFormat == <<"LinkedIn Post">>
FormTone == <<"Professional">>

\* what the LLM answers to the form's title request: titles that are strings,
\* an entry without a title, an entry that is no object, an empty array, prose
FormTitleOutcomes ==
    {RaiseOutcome}
    \cup { TextOutcome(<<>>, NoFence, pl, <<>>) :
             pl \in { ArrayOf(<<>>),
                      ArrayOf(<<TitleObject(<<"x">>, "7", <<"note">>),
                                TitleObject(GreatTitle, "9", <<"x">>)>>),
                      ArrayOf(<<ObjectOf(<<Member("seo_score", <<"9">>),
                                           Member("note", <<"null">>)>>)>>),
                      ArrayOf(<<TitleObject(GreatTitle, "9", <<"x">>), <<"9">>>>),
                      <<"note">> } }

\* what the LLM answers to the form's content request
FormContentOutcomes ==
    {RaiseOutcome}
    \cup { TextOutcome(<<>>, NoFence, pl, <<>>) :
             pl \in { ObjectOf(<<>>),
                      ObjectOf(<<Member("content", Q(<<"x">>)),
                                 Member("engagement_score", <<"9">>)>>),
                      <<"note">> } }

\* bool(j) of a Python value
Truthy(j) ==
    CASE j.t = "null" -> FALSE
      [] j.t = "num" -> j.v # 0
      [] OTHER -> j.v # <<>>

\* all([topic, target_audience])
AllFilled_TopicOnly(topic_in, audience_in) == topic_in # <<>>

AllFilled(topic_in, audience_in) == topic_in # <<>> /\ audience_in # <<>>

\* the entries before the first one that is no dict
RECURSIVE LeadingDicts(_)
LeadingDicts(xs) ==
    IF xs = <<>> \/ ~IsDict(Head(xs)) THEN 0 ELSE 1 + LeadingDicts(Tail(xs))

\* the select buttons the display loop renders: title_data.get raises
\* AttributeError at the first entry that is no dict and ends the run
SelectButtonsOf(titles) == IF Truthy(titles) THEN LeadingDicts(titles.v) ELSE 0

\* the display loop reaches its end, so that the run goes on to the content section
LoopCompletes(titles) == ~Truthy(titles) \/ LeadingDicts(titles.v) = Len(titles.v)

\* title_data.get('title', '')
TitleOf(title_data) ==
    IF HasKey(title_data, kTitle) THEN Get(title_data, kTitle) ELSE JStr(<<>>)

\* the content section rendering its button whatever is selected
ContentButtonOf_Always(selected) == TRUE

\* render_content_generation gets past its early return and renders the button
ContentButtonOf(selected) == Truthy(selected)

\* the user edits the topic or the target audience; no button is clicked
EditInputs ==
    /\ pc = "idle"
    /\ \E t \in Topics, a \in Audiences :
        /\ <<t, a>> # <<form_topic, form_audience>>
        /\ form_topic' = t
        /\ form_audience' = a
    /\ clicked' = "none"
    /\ op' = "none"
    /\ args' = NoArgs
    /\ llm' = RaiseOutcome
    /\ ret' = JNull
    /\ path' = "none"
    /\ select_buttons' = SelectButtonsOf(generated_titles)
    /\ content_button' = (LoopCompletes(generated_titles) /\ ContentButtonOf(selected_title))
    /\ UNCHANGED <<pc, session>>

\* a click on "Generate SEO-Optimized Titles"
PressGenerateTitles ==
    /\ pc = "idle"
    /\ clicked' = "generate_titles"
    /\ IF ~AllFilled(form_topic, form_audience)
       THEN \* the warning and the return, which skips the display loop
            /\ op' = "none"
            /\ args' = NoArgs
            /\ llm' = RaiseOutcome
            /\ ret' = JNull
            /\ path' = "none"
            /\ select_buttons' = 0
            /\ content_button' = ContentButtonOf(selected_title)
            /\ UNCHANGED session
       ELSE \E out \in FormTitleOutcomes :
            \E r \in {generate_titles(form_topic, out)} :
            \E titles \in {IF r.ret.t = "raise" THEN generated_titles ELSE r.ret} :
                /\ op' = "generate_titles"
                /\ args' = [topic |-> form_topic, target_audience |-> form_audience,
                            content_format |-> FormFormat, tone |-> FormTone]
                /\ llm' = out
                /\ ret' = r.ret
                /\ path' = r.path
                /\ generated_titles' = titles
                /\ select_buttons' = SelectButtonsOf(titles)
                /\ content_button' = (LoopCompletes(titles) /\ ContentButtonOf(selected_title))
                /\ UNCHANGED <<selected_title, generated_content>>
    /\ UNCHANGED <<pc, form_topic, form_audience>>

\* a click on the i-th "Select This Title"
SelectTitle ==
    /\ pc = "idle"
    /\ \E i \in 1..select_buttons :
        /\ i <= SelectButtonsOf(generated_titles)
        /\ selected_title' = TitleOf(generated_titles.v[i])
    /\ clicked' = "select_title"
    /\ op' = "none"
    /\ args' = NoArgs
    /\ llm' = RaiseOutcome
    /\ ret' = JNull
    /\ path' = "none"
    /\ select_buttons' = SelectButtonsOf(generated_titles)
    /\ content_button' = (LoopCompletes(generated_titles) /\ ContentButtonOf(selected_title'))
    /\ UNCHANGED <<pc, generated_titles, generated_content, form_topic, form_audience>>

\* a click on "Generate Engaging Content"
PressGenerateContent ==
    /\ pc = "idle"
    /\ content_button
    /\ LoopCompletes(generated_titles)
    /\ ContentButtonOf(selected_title)
    /\ \E out \in FormContentOutcomes, key_points_list \in {KeyPoints(<<>>)} :
        \E r \in {generate_content(selected_title.v, form_topic, FormFormat,
                                    key_points_list, out)} :
            /\ op' = "generate_content"
            /\ args' = [title |-> selected_title.v, topic |-> form_topic,
                        target_audience |-> form_audience, content_format |-> FormFormat,
                        tone |-> FormTone, key_points |-> key_points_list]
            /\ llm' = out
            /\ ret' = r.ret
            /\ path' = r.path
            /\ generated_content' = IF r.ret.t = "raise" THEN generated_content ELSE r.ret
    /\ clicked' = "generate_content"
    /\ select_buttons' = SelectButtonsOf(generated_titles)
    /\ content_button' = TRUE
    /\ UNCHANGED <<pc, generated_titles, selected_title, form_topic, form_audience>>

FormNext ==
    \/ EditInputs
    \/ PressGenerateTitles
    \/ SelectTitle
    \/ PressGenerateContent

FormSpec == Init /\ [][FormNext]_vars

(***************************************************************************)
(* Properties                                                              *)
(***************************************************************************)
Returns(name) == pc = "returned" /\ op = name
ReturnsOnText(name) == Returns(name) /\ llm.kind = "text"

FixedHashtags ==
    JArr(<<JStr(<<"#", "content">>), JStr(<<"#", "strategy">>), JStr(<<"#", "marketing">>)>>)

\* the text is one of the token runs of s
IsWordOf(w, s) == \E i \in 1..Len(SplitWs(s)) : SplitWs(s)[i] = w

\* the repair step leaves the payload alone: no ",]" and no ",}" in it, and
\* nowhere a "{" or "," followed by an identifier and a colon
NoRepairPattern(payload) ==
    /\ ~Contains(payload, <<",", "]">>)
    /\ ~Contains(payload, <<",", "}">>)
    /\ \A i \in 1..Len(payload) : KeyMatch(SubSeq(payload, i, Len(payload)))[2] = 0

\* the payload is strictly valid JSON of the expected shape
ValidArray(payload) == json_loads(payload).ok /\ IsList(json_loads(payload).v)
ValidObject(payload) == json_loads(payload).ok /\ IsDict(json_loads(payload).v)

InSeq(c, s) == \E i \in 1..Len(s) : s[i] = c

\* the prose around the payload cannot be taken for a delimiter of the shape,
\* and a text that starts with the json fence holds nothing but the fenced payload
CleanSurroundings(open, close) ==
    \/ /\ ~StartsWith(Strip(llm.text), <<fence, "json">>)
       /\ ~InSeq(open, llm.pre)
       /\ ~InSeq(close, llm.post)
    \/ /\ Strip(llm.pre) = <<>>
       /\ Strip(llm.post) = <<>>
       /\ llm.fo = <<fence, "json", nl>>

\* what optimize_for_platform returns for a parsed dict d
WithOriginalLength(d) ==
    IF HasKey(d, kOriginalLength) THEN d
    ELSE JObj(Append(d.v, Item(kOriginalLength, JNum(StrLen(args.content)))))

\* the call handed back the value v of the payload, parsed
HandedBack(v) ==
    /\ path = "parsed"
    /\ CASE op = "generate_titles" -> ret = v
         [] op = "generate_content" -> ret = v
         [] op = "optimize_for_platform" -> ret = WithOriginalLength(v)
         [] op = "analyze_content_performance" ->
                HasKey(ret, <<"analysis">>) /\ Get(ret, <<"analysis">>) = v

\* the text answers one of the four operations with a valid payload of its shape
ValidPayloadAnswer ==
    \/ ReturnsOnText("generate_titles") /\ ValidArray(llm.payload)
    \/ /\ llm.kind = "text"
       /\ \/ Returns("generate_content")
          \/ Returns("optimize_for_platform")
          \/ Returns("analyze_content_performance")
       /\ ValidObject(llm.payload)

ShapeOpen == IF op = "generate_titles" THEN "[" ELSE "{"
ShapeClose == IF op = "generate_titles" THEN "]" ELSE "}"

C2_DefaultTitlesOnLLMError ==
    (Returns("generate_titles") /\ llm.kind = "raise")
    => /\ IsList(ret)
       /\ Len(ret.v) = 2
       /\ Get(ret.v[1], kTitle) = JStr(<<"The Ultimate Guide to ">> \o args.topic)
       /\ Get(ret.v[1], kSeoScore) = JNum(8)
       /\ Get(ret.v[2], kTitle) = JStr(<<"5 Proven Strategies for ">> \o args.topic \o <<" Success">>)
       /\ Get(ret.v[2], kSeoScore) = JNum(7)

\* C2 witness: generate_titles returned after the LLM call raised
C2_Witness == Returns("generate_titles") /\ llm.kind = "raise" /\ path = "exception"

C4_ValidPayloadRecovered ==
    (ValidPayloadAnswer /\ NoRepairPattern(llm.payload) /\ CleanSurroundings(ShapeOpen, ShapeClose))
    => HandedBack(json_loads(llm.payload).v)

\* C4 witness: a fenced payload between leading and trailing prose was recovered
C4_Witness ==
    /\ ValidPayloadAnswer
    /\ llm.pre = <<"Sure", "!", sp>>
    /\ llm.fo = <<fence, nl>>
    /\ llm.post = <<sp, "Sure", "!", nl>>
    /\ Len(llm.payload) > 2
    /\ HandedBack(json_loads(llm.payload).v)

\* C4 as stated: every valid payload of the expected shape is recovered,
\* whatever surrounds it
C4_AnyValidPayloadRecovered ==
    ValidPayloadAnswer => HandedBack(json_loads(llm.payload).v)

\* every element of the array is an object with title, seo_score and reasoning
TitleObjects(payload) ==
    /\ ValidArray(payload)
    /\ \A i \in 1..Len(json_loads(payload).v.v) :
          IsDict(json_loads(payload).v.v[i]) /\ IsComplete(json_loads(payload).v.v[i])

\* leading prose, then the array inside a json fence that ends the text
ProseThenFencedArray ==
    /\ ReturnsOnText("generate_titles")
    /\ Strip(llm.pre) # <<>>
    /\ llm.fo = <<fence, "json", nl>>
    /\ llm.fc = <<nl, fence>>
    /\ llm.post = <<>>
    /\ TitleObjects(llm.payload)

\* C5 (as amended): leading prose without "[" followed by a fenced valid
\* array of title objects that the repair step leaves alone: generate_titles
\* returns the array's candidates unchanged, in the emitted order.
C5_FencedArrayReturnedInOrder ==
    (ProseThenFencedArray /\ ~InSeq("[", llm.pre) /\ NoRepairPattern(llm.payload))
    => /\ path = "parsed"
       /\ ret = json_loads(llm.payload).v

\* C5 witness: two candidates emitted with scores 7 then 9 came back in that order
C5_Witness ==
    /\ ProseThenFencedArray
    /\ path = "parsed"
    /\ Len(ret.v) = 2
    /\ Get(ret.v[1], kSeoScore) = JNum(7)
    /\ Get(ret.v[2], kSeoScore) = JNum(9)

\* C5 as stated: any leading prose, any valid array of title objects
C5_AnyFencedArrayReturnedInOrder ==
    ProseThenFencedArray
    => /\ path = "parsed"
       /\ ret = json_loads(llm.payload).v

\* C6: when the text does not parse, optimize_for_platform and
\* analyze_content_performance return an error record whose raw_response is
\* the raw text verbatim, and nothing else.
C6_ErrorRecordCarriesRawText ==
    (/\ ReturnsOnText("optimize_for_platform") \/ ReturnsOnText("analyze_content_performance")
     /\ ~ParseChain(llm.text, "{", "}").ok)
    => /\ IsDict(ret)
       /\ Len(ret.v) = 2
       /\ HasKey(ret, <<"error">>)
       /\ HasKey(ret, <<"raw_response">>)
       /\ Get(ret, <<"raw_response">>) = JStr(llm.text)

\* C6 witness: an unparsable text with whitespace around it came back in an error record
C6_Witness ==
    /\ ReturnsOnText("optimize_for_platform")
    /\ path = "decode_error"
    /\ Strip(llm.text) # llm.text
    /\ IsDict(ret)
    /\ HasKey(ret, <<"error">>)

InRange(x) == x.t = "num" /\ 1 <= x.v /\ x.v <= 10

\* C7: every seo_score returned by generate_titles and the engagement_score
\* returned by generate_content is an integer in 1..10 on every return path.
C7_ScoresInRange ==
    /\ Returns("generate_titles")
       => \A i \in 1..Len(ret.v) :
             (IsDict(ret.v[i]) /\ HasKey(ret.v[i], kSeoScore))
             => InRange(Get(ret.v[i], kSeoScore))
    /\ Returns("generate_content")
       => ((IsDict(ret) /\ HasKey(ret, kEngagement)) => InRange(Get(ret, kEngagement)))

\* C8: the hashtags of every record returned by generate_content number at
\* most ten on every return path.
C8_AtMostTenHashtags ==
    (Returns("generate_content") /\ IsDict(ret) /\ HasKey(ret, kHashtags)
        /\ IsList(Get(ret, kHashtags)))
    => Len(Get(ret, kHashtags).v) <= 10

\* C9: generate_titles returns at most five candidates on every return path.
C9_AtMostFiveTitles ==
    Returns("generate_titles") => (IsList(ret) /\ Len(ret.v) <= 5)

\* C10: every element of the list returned by generate_titles is a record
\* with the three fields title, seo_score and reasoning.
C10_EveryCandidateComplete ==
    Returns("generate_titles")
    => \A i \in 1..Len(ret.v) : IsDict(ret.v[i]) /\ IsComplete(ret.v[i])

\* C11: generate_content always returns a mapping-shaped record; a repaired
\* text that parses to a non-object value is never returned itself.
C11_ContentAlwaysRecord ==
    Returns("generate_content") => IsDict(ret)

\* C12: the extraction step is idempotent: for every raw text and either
\* shape, applying it to its own output returns that output unchanged.
C12_ExtractionIdempotent ==
    (pc = "returned" /\ llm.kind = "text")
    => \A d \in {<<"[", "]">>, <<"{", "}">>} :
          ExtractPayload(ExtractPayload(llm.text, d[1], d[2]), d[1], d[2])
              = ExtractPayload(llm.text, d[1], d[2])

\* the text the called operation hands to _clean_json_string
Extracted == ExtractPayload(llm.text, ShapeOpen, ShapeClose)

\* C13: _clean_json_string returns its input unchanged for every string that
\* is already strictly valid JSON.
C13_CleanKeepsValidJson ==
    (pc = "returned" /\ llm.kind = "text" /\ json_loads(Extracted).ok)
    => clean_json_string(Extracted) = Extracted

\* C14: for every raw text _parse_fallback_titles returns at most five
\* candidates, each with a seo_score in 1..10 and a non-empty title.
C14_FallbackCandidatesWellFormed ==
    (pc = "returned" /\ llm.kind = "text")
    => LET titles == parse_fallback_titles(llm.text)
       IN  /\ Len(titles) <= 5
           /\ \A i \in 1..Len(titles) :
                 /\ InRange(Get(titles[i], kSeoScore))
                 /\ Get(titles[i], kTitle).v # <<>>

\* no line of the text holds "title": and no line starts with Title:
NoTitleMarker(text) ==
    /\ ~Contains(text, TitleMarker)
    /\ \A i \in 1..Len(SplitLines(text)) :
          ~StartsWith(Strip(SplitLines(text)[i]), <<"Title", ":">>)

\* C15: when the response does not parse and holds no title marker,
\* generate_titles returns exactly the two fixed default candidates, which
\* depend on the topic alone.
C15_DefaultsWhenNoMarker ==
    (/\ ReturnsOnText("generate_titles")
     /\ ~ParseChain(llm.text, "[", "]").ok
     /\ NoTitleMarker(llm.text))
    => /\ path = "default"
       /\ ret = get_default_titles(args.topic)
       /\ Len(ret.v) = 2

\* C15 witness: "no json x" between prose was answered to generate_titles on topic AI
C15_Witness ==
    /\ ReturnsOnText("generate_titles")
    /\ llm.payload = <<"no", sp, "json", sp, "x">>
    /\ llm.pre = <<"Sure", "!", sp>>
    /\ args.topic = <<"AI">>
    /\ path = "default"
    /\ Get(ret.v[1], kTitle) = JStr(<<"The Ultimate Guide to ", "AI">>)

\* the value is a JSON value, not an exception on its way out
IsValue(x) == x.t \in {"null", "num", "str", "arr", "obj"}

\* a list of dicts all of whose items are values
ListOfRecords(xs) ==
    \A i \in 1..Len(xs) :
        IsDict(xs[i]) /\ \A j \in 1..Len(xs[i].v) : IsValue(xs[i].v[j].x)

\* C16: the fallback stage is total: _parse_fallback_titles,
\* _get_default_titles and _get_default_content return a value without
\* raising for every text, also when a seo_score text is not an integer or
\* a marker is followed by nothing.
C16_FallbackStageTotal ==
    (pc = "returned" /\ llm.kind = "text")
    => /\ ListOfRecords(parse_fallback_titles(llm.text))
       /\ Len(parse_fallback_titles(llm.text)) <= 5
       /\ IsList(get_default_titles(llm.text))
       /\ ListOfRecords(get_default_titles(llm.text).v)
       /\ ListOfRecords(<<get_default_content(llm.text, llm.text, llm.text)>>)

\* C16 witness: a line scan met a seo_score that is not an integer and stored 7
C16_Witness ==
    /\ ReturnsOnText("generate_titles")
    /\ path = "line_scan"
    /\ Contains(llm.text, SeoMarker \o <<"x">>)
    /\ Len(ret.v) = 5
    /\ Get(ret.v[1], kSeoScore) = JNum(7)

\* the trimmed text s has no usable delimiter pair: no opening delimiter, or
\* no closing delimiter after the first opening one
NoUsablePair(s, open, close) ==
    \/ Find(s, open) = -1
    \/ RFind(s, close) < Find(s, open)

\* C17: when the trimmed response has no usable delimiter pair for the
\* shape, the extraction step hands on the full trimmed text unchanged.
C17_NoPairKeepsTrimmedText ==
    (pc = "returned" /\ llm.kind = "text")
    => \A d \in {<<"[", "]">>, <<"{", "}">>} :
          (/\ ~StartsWith(Strip(llm.text), <<fence, "json">>)
           /\ NoUsablePair(Strip(llm.text), d[1], d[2]))
          => ExtractPayload(llm.text, d[1], d[2]) = Strip(llm.text)

\* C18: _clean_json_string is idempotent: cleaning its own output changes
\* nothing.
C18_CleanIdempotent ==
    (pc = "returned" /\ llm.kind = "text")
    => clean_json_string(clean_json_string(Extracted)) = clean_json_string(Extracted)

\* the single quotes of s, in order
SingleQuotes(s) == SelectSeq(s, LAMBDA t : t = sq)

\* {title: 'x', seo_score: 7,} and what the repair makes of it
BareKeysSingleQuoted ==
    <<"{", "title", ":", sp, sq, "x", sq, ",", sp, "seo_score", ":", sp, "7", ",", "}">>
BareKeysRepaired ==
    <<"{", dq, "title", dq, ":", sp, sq, "x", sq, ",", sp, dq, "seo_score", dq, ":", sp, "7", "}">>

C20_NotListHandledLikeDecodeError ==
    (/\ ReturnsOnText("generate_titles")
     /\ ParseChain(llm.text, "[", "]").ok
     /\ ~IsList(ParseChain(llm.text, "[", "]").v))
    => ret = OnTitlesDecodeError(llm.text, args.topic).ret

\* C21: for optimize_for_platform and analyze_content_performance a response
\* that parses to a value that is not an object yields an error record with
\* the raw text, never a result that holds the non-object value.
C21_NonObjectYieldsErrorRecord ==
    (/\ ReturnsOnText("optimize_for_platform") \/ ReturnsOnText("analyze_content_performance")
     /\ ParseChain(llm.text, "{", "}").ok
     /\ ~IsDict(ParseChain(llm.text, "{", "}").v))
    => /\ IsDict(ret)
       /\ HasKey(ret, <<"error">>)
       /\ HasKey(ret, <<"raw_response">>)
       /\ Get(ret, <<"raw_response">>) = JStr(llm.text)

\* the lines of the text that hold the "title": marker, by number
TitleLineNumbers(lines) == {i \in 1..Len(lines) : Contains(Strip(lines[i]), TitleMarker)}

\* the lines that follow title line i up to the next title line or the end
BlockOf(lines, i) ==
    {j \in (i + 1)..Len(lines) : \A k \in (i + 1)..j : k \notin TitleLineNumbers(lines)}

\* title line i is followed, within its block, by a seo_score line and by a
\* reasoning line
CompleteBlock(lines, i) ==
    /\ \E j \in BlockOf(lines, i) : Contains(Strip(lines[j]), SeoMarker)
    /\ \E j \in BlockOf(lines, i) :
          ~Contains(Strip(lines[j]), SeoMarker) /\ Contains(Strip(lines[j]), ReasoningMarker)

CompleteTitleLines(lines) == {i \in TitleLineNumbers(lines) : CompleteBlock(lines, i)}

\* the k-th smallest member of the set S of numbers
Kth(S, k) == CHOOSE i \in S : Cardinality({j \in S : j < i}) = k - 1

\* the title text the first pass takes from a title line
TitleOfLine(line) ==
    Strip(Replace(Split(Split(Strip(line), TitleMarker)[2], <<",">>)[1], <<dq>>, <<>>))

\* C22: the first pass emits one record per title line whose block (up to
\* the next title line or the end) holds a seo_score line and a reasoning
\* line, in the order of the title lines; blocks missing a field give
\* nothing and lines before the first title line are ignored.
C22_FirstPassEmitsCompleteBlocks ==
    (pc = "returned" /\ llm.kind = "text")
    => LET lines == Split(llm.text, <<nl>>)
           emitted == FirstPass(llm.text)
           complete == CompleteTitleLines(lines)
       IN  /\ Len(emitted) = Cardinality(complete)
           /\ \A k \in 1..Len(emitted) :
                 /\ IsComplete(emitted[k])
                 /\ Get(emitted[k], kTitle) = JStr(TitleOfLine(lines[Kth(complete, k)]))

\* C22 witness: of three title lines only the last had both fields, and a
\* score line came before the first title line
C22_Witness ==
    /\ ReturnsOnText("generate_titles")
    /\ path = "line_scan"
    /\ StartsWith(llm.text, SeoMarker)
    /\ Cardinality(TitleLineNumbers(Split(llm.text, <<nl>>))) = 3
    /\ ret = JArr(<<TitleRecord(<<"x">>, 5, <<"x">>)>>)

\* the text the second pass takes from a line: what follows the first colon,
\* trimmed, without double quotes and commas
TextOfLine(line) ==
    LET parts == Split1(line, <<":">>)
    IN  Replace(Replace(Strip(parts[Len(parts)]), <<dq>>, <<>>), <<",">>, <<>>)

LengthFits(line) == 10 < StrLen(TextOfLine(line)) /\ StrLen(TextOfLine(line)) < 100

\* the lines that, trimmed, begin with Title: or with "title":, by number
BeginningLines(lines) ==
    {i \in 1..Len(lines) :
        /\ StartsWith(Strip(lines[i]), <<"Title", ":">>) \/ StartsWith(Strip(lines[i]), TitleMarker)
        /\ LengthFits(lines[i])}

\* the lines that begin with Title: or hold "title": anywhere, by number
HoldingLines(lines) ==
    {i \in 1..Len(lines) :
        /\ StartsWith(Strip(lines[i]), <<"Title", ":">>) \/ Contains(lines[i], TitleMarker)
        /\ LengthFits(lines[i])}

MinimalCandidate(line) ==
    TitleRecord(TextOfLine(line), 7, <<"Fallback parsed title with good potential">>)

\* the first five of the lines numbered in S, each as a minimal candidate
CandidatesOf(lines, S) ==
    [k \in 1..(IF Cardinality(S) < 5 THEN Cardinality(S) ELSE 5) |->
        MinimalCandidate(lines[Kth(S, k)])]

\* C23 (as amended): the second pass runs only when the first pass found
\* nothing, and then every line that, trimmed, begins with Title: or with
\* "title": and whose text is 11 to 99 characters long becomes a candidate
\* with seo_score 7 and the generic reasoning, in line order, at most five
\* being returned; all other lines produce nothing.
C23_SecondPassTakesBeginningLines ==
    (pc = "returned" /\ llm.kind = "text")
    => IF FirstPass(llm.text) # <<>>
       THEN parse_fallback_titles(llm.text) = Slice(FirstPass(llm.text), 0, 5)
       ELSE parse_fallback_titles(llm.text)
                = CandidatesOf(SplitLines(llm.text), BeginningLines(SplitLines(llm.text)))

\* C23 witness: of four Title: lines with texts of 10, 11, 99 and 100
\* characters the second and the third became candidates
C23_Witness ==
    /\ ReturnsOnText("generate_titles")
    /\ path = "line_scan"
    /\ Len(SplitLines(llm.text)) = 4
    /\ Len(ret.v) = 2
    /\ Get(ret.v[1], kTitle) = JStr(<<"seo_score", sp, "x">>)
    /\ StrLen(Get(ret.v[2], kTitle).v) = 99
    /\ Get(ret.v[2], kSeoScore) = JNum(7)

\* C23 as stated: a line that holds "title": anywhere counts as well
C23_SecondPassTakesHoldingLines ==
    (pc = "returned" /\ llm.kind = "text" /\ FirstPass(llm.text) = <<>>)
    => parse_fallback_titles(llm.text)
           = CandidatesOf(SplitLines(llm.text), HoldingLines(SplitLines(llm.text)))

\* the whitespace-separated words of the text that begin with '#', by number
HashWordNumbers(words) == {i \in 1..Len(words) : words[i][1] = "#"}

\* C24: when json.loads raises a decode error in generate_content, the
\* record has the raw response as its content, engagement_score 5, and as
\* hashtags the first at most ten whitespace-separated words of the raw
\* response that begin with '#', in their order.
C24_DecodeErrorRecordHashtags ==
    (ReturnsOnText("generate_content") /\ ~ParseChain(llm.text, "{", "}").ok)
    => LET words == SplitWs(llm.text)
           tagged == HashWordNumbers(words)
       IN  /\ path = "decode_error"
           /\ Get(ret, kContent) = JStr(llm.text)
           /\ Get(ret, kEngagement) = JNum(5)
           /\ Get(ret, kHashtags)
                 = JArr([k \in 1..(IF Cardinality(tagged) < 10 THEN Cardinality(tagged) ELSE 10)
                            |-> JStr(words[Kth(tagged, k)])])

\* C24 witness: a response with more than ten '#' words came back with ten hashtags
C24_Witness ==
    /\ ReturnsOnText("generate_content")
    /\ path = "decode_error"
    /\ Cardinality(HashWordNumbers(SplitWs(llm.text))) > 10
    /\ Len(Get(ret, kHashtags).v) = 10

\* C25: analyze_title_performance returns a record without raising for
\* every title, the empty one and a whitespace-only one included, and for
\* every LLM behaviour.
C25_TitleAnalysisNeverRaises ==
    Returns("analyze_title_performance") => (ret.t # "raise" /\ IsDict(ret))

\* C26: every value returned by analyze_content_performance and
\* analyze_title_performance is a record with exactly one of the top-level
\* keys analysis and error, the latter together with raw_response, whatever
\* keys the LLM's own object has.
C26_AnalysisXorError ==
    (/\ Returns("analyze_content_performance") \/ Returns("analyze_title_performance")
     /\ ret.t # "raise")
    => /\ IsDict(ret)
       /\ HasKey(ret, <<"analysis">>) # HasKey(ret, <<"error">>)
       /\ HasKey(ret, <<"error">>) => HasKey(ret, <<"raw_response">>)
       /\ HasKey(ret, <<"analysis">>) => Len(ret.v) = 1

\* C26 witness: the LLM's object had the keys analysis and error itself and
\* came back under the single key analysis
C26_Witness ==
    /\ ReturnsOnText("analyze_content_performance")
    /\ path = "parsed"
    /\ Len(ret.v) = 1
    /\ IsDict(Get(ret, <<"analysis">>))
    /\ HasKey(Get(ret, <<"analysis">>), <<"error">>)
    /\ HasKey(Get(ret, <<"analysis">>), <<"analysis">>)

\* C27: a record returned by optimize_for_platform from a parsed object has
\* the key original_length: the length of the content argument when the LLM
\* left it out, the LLM's value unchanged when the LLM gave it.
C27_OriginalLengthKeptOrAdded ==
    (/\ ReturnsOnText("optimize_for_platform")
     /\ ParseChain(llm.text, "{", "}").ok
     /\ IsDict(ParseChain(llm.text, "{", "}").v))
    => LET given == ParseChain(llm.text, "{", "}").v
       IN  /\ IsDict(ret)
           /\ HasKey(ret, kOriginalLength)
           /\ IF HasKey(given, kOriginalLength)
              THEN ret = given
              ELSE /\ Get(ret, kOriginalLength) = JNum(StrLen(args.content))
                   /\ Len(ret.v) = Len(given.v) + 1
                   /\ \A i \in 1..Len(given.v) : ret.v[i] = given.v[i]

\* C27 witness: the LLM gave original_length 9 for a content of 20 characters
\* and 9 came back
C27_Witness ==
    /\ ReturnsOnText("optimize_for_platform")
    /\ path = "parsed"
    /\ StrLen(args.content) = 20
    /\ IsDict(ret)
    /\ HasKey(ret, kOriginalLength)
    /\ Get(ret, kOriginalLength) = JNum(9)

\* C28: in the web form generate_content is invoked only from a state whose
\* selected_title is non-empty, with that title; selected_title becomes
\* non-empty only by a click on a select button, and then it is the title of
\* an entry of the generated_titles list of that moment.  (That topic and
\* target audience may be empty at that moment is the witness.)
C28_ContentOnlyForSelectedTitle ==
    [][ /\ op' = "generate_content"
           => /\ Truthy(selected_title)
              /\ selected_title' = selected_title
              /\ args'.title = selected_title.v
        /\ (Truthy(selected_title') /\ selected_title' # selected_title)
           => /\ clicked' = "select_title"
              /\ generated_titles' = generated_titles
              /\ \E i \in 1..Len(generated_titles.v) :
                    /\ IsDict(generated_titles.v[i])
                    /\ HasKey(generated_titles.v[i], kTitle)
                    /\ Get(generated_titles.v[i], kTitle) = selected_title'
      ]_vars

\* C28 witness: content was generated for a selected title while topic and
\* target audience were empty
C28_Witness ==
    /\ clicked = "generate_content"
    /\ op = "generate_content"
    /\ args.title = selected_title.v
    /\ Truthy(selected_title)
    /\ args.topic = <<>>
    /\ args.target_audience = <<>>

\* C29: a non-empty selected_title is the title of some entry of the current
\* generated_titles list.
C29_SelectedTitleInCurrentList ==
    Truthy(selected_title)
    => \E i \in 1..Len(generated_titles.v) :
          /\ IsDict(generated_titles.v[i])
          /\ TitleOf(generated_titles.v[i]) = selected_title

\* C30: a click on the generate-titles button while topic or target audience
\* is empty invokes no agent and leaves generated_titles, selected_title and
\* generated_content as they were.
C30_EmptyInputsPressChangesNothing ==
    [][ (clicked' = "generate_titles" /\ (form_topic = <<>> \/ form_audience = <<>>))
        => /\ op' = "none"
           /\ generated_titles' = generated_titles
           /\ selected_title' = selected_title
           /\ generated_content' = generated_content
      ]_vars

\* C30 witness: the button was pressed with an empty input while titles, a
\* selection and a content were in the session
C30_Witness ==
    /\ clicked = "generate_titles"
    /\ form_topic = <<>> \/ form_audience = <<>>
    /\ op = "none"
    /\ generated_titles # JArr(<<>>)
    /\ Truthy(selected_title)
    /\ Truthy(generated_content)

====
